---------------------------- MODULE Spec2Model ----------------------------
(***************************************************************************)
(* A model of ConfigManager (src/config_manager.py): the name -> path      *)
(* manifest, the access check, privilege elevation, the YAML/JSON codec,   *)
(* and the backup store, over an abstract filesystem.                      *)
(*                                                                         *)
(* A path is a record [dir, stem, ext]; a stem is a sequence of tokens     *)
(* joined by "_" (so <<"bookmarks","old">> is the stem "bookmarks_old").   *)
(* A file is a record [exists, content, mtime, owner, mode]; mtime is in   *)
(* whole seconds (the code only ever uses int(st_mtime)).                  *)
(***************************************************************************)
EXTENDS Integers, Sequences, FiniteSets, TLC

VARIABLES
    paths,      \* config_files[name].path, the in-memory manifest
    manifest,   \* content of config_paths.json on disk
    fs,         \* the configuration files, by path
    dirs,       \* the directories: [exists, writable, probe]
    backups,    \* the files of backup_dir, a set of backup records
    now,        \* the wall clock, in whole seconds
    nops,       \* number of calls made so far that can change files
    last,       \* the last call made, its arguments and what it returned
    inflight    \* per caller: where its write_config is, calls it has made

vars == <<paths, manifest, fs, dirs, backups, now, nops, last, inflight>>

----------------------------------------------------------------------------
(* Bounds of the model *)

T0 == 9             \* the clock value at construction
MaxTime == 10       \* the clock stops here
MaxOps == 1         \* calls that count against nops in one behaviour

----------------------------------------------------------------------------
(* The registry: ConfigManager.__init__. The two required names, and      *)
(* widgets for the five optional ones, which differ only in their file    *)
(* name.                                                                  *)

Names == {"bookmarks", "settings", "widgets"}

Required(n) == n \in {"bookmarks", "settings"}

BackupEnabled(n) == TRUE

Mode644 == 420      \* 0o644

AppDir == "app"
BackupDir == "backups"

EmptyPath == [dir |-> "cwd", stem |-> <<>>, ext |-> ""]

DefaultPath(n) == [dir |-> AppDir, stem |-> <<n>>, ext |-> "yaml"]

(* The paths a caller hands to set_config_path. *)
PathInputs ==
    { [dir |-> "ext",  stem |-> <<"bm">>,               ext |-> "json"],
      [dir |-> "ext",  stem |-> <<"bookmarks", "old">>, ext |-> "conf"],
      [dir |-> "gone", stem |-> <<"bm">>,               ext |-> "yaml"],
      EmptyPath }

(* A manifest value that is not a string (json.load gives an int for    *)
(* 42): it names no file and lies in no directory.                       *)
NotAString == [dir |-> "none", stem |-> <<>>, ext |-> "int"]

(* The file the configuration window creates to try the helper on. *)
TestPath == [dir |-> AppDir, stem |-> <<"test", "privilege">>, ext |-> "tmp"]

AllPaths == {DefaultPath(n) : n \in Names} \cup PathInputs \cup {NotAString, TestPath}

Dirs == {AppDir, BackupDir, "ext", "gone", "cwd", "none"}

Parent(p) == p.dir

Stem(p) == p.stem

----------------------------------------------------------------------------
(* Documents and file content: yaml.dump / json.dump / safe_load / load *)

EmptyMap  == [kind |-> "map",  items |-> <<>>]
EmptyList == [kind |-> "list", items |-> <<>>]
NullDoc   == [kind |-> "null", items |-> <<>>]

Docs == { EmptyMap, EmptyList,
          [kind |-> "list", items |-> <<"a", "b">>],
          [kind |-> "map",  items |-> <<"layout">>] }

(* Python truthiness of a document: None and empty containers are falsy. *)
Falsy(d) == d.kind = "null" \/ Len(d.items) = 0

OrEmpty(d) == IF Falsy(d) THEN EmptyMap ELSE d

(* File content: zero bytes, the YAML or JSON text of a document, the      *)
(* prefix of a text left by a write that failed, or bytes that are neither *)
(* YAML nor JSON.                                                          *)
EmptyBytes == [fmt |-> "empty",   doc |-> NullDoc]
Garbage    == [fmt |-> "garbage", doc |-> NullDoc]

YamlDump(d) == [fmt |-> "yaml", doc |-> d]
JsonDump(d) == [fmt |-> "json", doc |-> d]
Partial(c)  == [fmt |-> "partial", doc |-> c.doc]

IsYamlExt(p) == p.ext \in {"yaml", "yml"}
IsJsonExt(p) == p.ext = "json"

(* write_config's choice of encoder *)
Encode(p, d) ==
    IF IsYamlExt(p) THEN YamlDump(d)
    ELSE IF IsJsonExt(p) THEN JsonDump(d)
    ELSE YamlDump(d)

(* yaml.safe_load: JSON text is YAML flow style; zero bytes load as None. *)
YamlLoad(c) ==
    CASE c.fmt = "yaml"  -> [ok |-> TRUE,  doc |-> c.doc]
      [] c.fmt = "json"  -> [ok |-> TRUE,  doc |-> c.doc]
      [] c.fmt = "empty" -> [ok |-> TRUE,  doc |-> NullDoc]
      [] OTHER           -> [ok |-> FALSE, doc |-> NullDoc]

(* json.load: block-style YAML is not JSON, but yaml.dump writes an empty *)
(* container as "{}" or "[]", which is; zero bytes are an error.           *)
JsonLoad(c) ==
    CASE c.fmt = "json" -> [ok |-> TRUE, doc |-> c.doc]
      [] c.fmt = "yaml" /\ Len(c.doc.items) = 0 /\ c.doc.kind # "null"
                        -> [ok |-> TRUE, doc |-> c.doc]
      [] OTHER          -> [ok |-> FALSE, doc |-> NullDoc]

(* The decoding branch of read_config, lines 201-213; ok = FALSE is the    *)
(* exception the parser raises.                                            *)
Decode(p, c) ==
    IF IsYamlExt(p) THEN YamlLoad(c)
    ELSE IF IsJsonExt(p) THEN JsonLoad(c)
    ELSE IF YamlLoad(c).ok THEN YamlLoad(c) ELSE JsonLoad(c)


----------------------------------------------------------------------------
(* Files, ownership and permission bits *)

NoFile == [exists |-> FALSE, content |-> EmptyBytes, mtime |-> 0,
           owner |-> "me", mode |-> 0]

Bit(mode, b) == (mode \div b) % 2 = 1

(* os.access(path, R_OK / W_OK) for the current principal *)
CanRead(f)  == IF f.owner = "me" THEN Bit(f.mode, 256) ELSE Bit(f.mode, 4)
CanWrite(f) == IF f.owner = "me" THEN Bit(f.mode, 128) ELSE Bit(f.mode, 2)

DirWritable(dirsx, d) == dirsx[d].exists /\ dirsx[d].writable

(* open(path, 'w'): an existing file needs write permission on the file,  *)
(* a new one needs a writable parent directory.                           *)
CanOpenForWrite(fsx, dirsx, p) ==
    IF fsx[p].exists THEN CanWrite(fsx[p]) ELSE DirWritable(dirsx, Parent(p))

----------------------------------------------------------------------------
(* PathManifest *)

GetConfigPath(pathsx, n) ==
    IF n \notin Names THEN EmptyPath
    ELSE IF pathsx[n] = EmptyPath THEN DefaultPath(n)
    ELSE pathsx[n]

(* A validation that does not look for the parent directory. *)
ValidateAnyParent(dirsx, p) ==
    LET d == Parent(p) IN
    IF dirsx[d].exists /\ ~dirsx[d].writable THEN [ok |-> FALSE, dirs |-> dirsx]
    ELSE [ok |-> TRUE, dirs |-> dirsx]

(* validate_config_path: the parent must exist, then touch() and unlink()  *)
(* of <parent>/.test_write must both succeed. touch() of an existing probe *)
(* file only updates its time; unlink() needs a writable directory and     *)
(* removes the probe file whether or not touch() created it.               *)
ValidateConfigPath(dirsx, p) ==
    LET d == Parent(p) IN
    IF ~dirsx[d].exists THEN [ok |-> FALSE, dirs |-> dirsx]
    ELSE IF ~dirsx[d].writable THEN [ok |-> FALSE, dirs |-> dirsx]
    ELSE [ok |-> TRUE, dirs |-> [dirsx EXCEPT ![d].probe = FALSE]]

(* config_paths.json: [exists, readable, writable, valid, map]. valid is  *)
(* FALSE for bytes that are not JSON and for JSON that is not an object;  *)
(* map gives the value of every registered key ("" is EmptyPath).         *)
(* save_config_paths: rewrites config_paths.json; every exception is       *)
(* logged and swallowed, so a failed open leaves the file as it was.       *)
SaveConfigPaths(pathsx, man, dirsx) ==
    IF (man.exists /\ man.writable) \/ (~man.exists /\ DirWritable(dirsx, AppDir))
    THEN [exists |-> TRUE, readable |-> IF man.exists THEN man.readable ELSE TRUE,
          writable |-> TRUE, valid |-> TRUE, map |-> pathsx]
    ELSE man

(* load_config_paths, lines 60-74: an existing manifest is opened and    *)
(* parsed and its values assigned, whatever their type; with no manifest, *)
(* or on any exception (open refused, not JSON, no .items()), the paths   *)
(* stay "" and save_config_paths is called.                               *)
LoadConfigPaths(man, dirsx) ==
    LET blank == [n \in Names |-> EmptyPath] IN
    IF man.exists /\ man.readable /\ man.valid
    THEN [paths |-> man.map, manifest |-> man]
    ELSE [paths |-> blank, manifest |-> SaveConfigPaths(blank, man, dirsx)]

----------------------------------------------------------------------------
(* AccessValidator and PrivilegeElevator *)

(* A check that tests write permission before read permission. *)
CheckPrivilegesWriteFirst(fsx, dirsx, p) ==
    IF p = NotAString THEN [ok |-> FALSE, msg |-> "TypeError"]
    ELSE IF fsx[p].exists
    THEN IF ~CanWrite(fsx[p]) THEN [ok |-> FALSE, msg |-> "No write permission"]
         ELSE IF ~CanRead(fsx[p]) THEN [ok |-> FALSE, msg |-> "No read permission"]
         ELSE [ok |-> TRUE, msg |-> "OK"]
    ELSE IF ~DirWritable(dirsx, Parent(p))
         THEN [ok |-> FALSE, msg |-> "No write permission to parent directory"]
         ELSE [ok |-> TRUE, msg |-> "OK"]

CheckPrivileges(fsx, dirsx, p) ==
    IF p = NotAString THEN [ok |-> FALSE, msg |-> "TypeError"]
    ELSE IF fsx[p].exists
    THEN IF ~CanRead(fsx[p]) THEN [ok |-> FALSE, msg |-> "No read permission"]
         ELSE IF ~CanWrite(fsx[p]) THEN [ok |-> FALSE, msg |-> "No write permission"]
         ELSE [ok |-> TRUE, msg |-> "OK"]
    ELSE IF ~DirWritable(dirsx, Parent(p))
         THEN [ok |-> FALSE, msg |-> "No write permission to parent directory"]
         ELSE [ok |-> TRUE, msg |-> "OK"]

(* What the helper process does: "fail" is a non-zero exit of sudo chown  *)
(* (or no sudo, or another platform), "ok" is both steps succeeding,      *)
(* "nochmod" is chown succeeding and chmod failing.                       *)
HelperOutcomes == {"fail", "ok", "nochmod"}

(* elevate_privileges: chown of a missing path exits non-zero; the exit   *)
(* status of chmod is not looked at.                                      *)
ElevatePrivileges(fsx, p, ev) ==
    IF ~fsx[p].exists \/ ev = "fail" THEN [ok |-> FALSE, fs |-> fsx]
    ELSE IF ev = "ok"
         THEN [ok |-> TRUE,
               fs |-> [fsx EXCEPT ![p].owner = "me", ![p].mode = Mode644]]
         ELSE [ok |-> TRUE, fs |-> [fsx EXCEPT ![p].owner = "me"]]

(* A caller that runs the helper and does not look at what it returns. *)
ElevatedUnchecked(chk, fsx, p, ev) ==
    IF chk.ok THEN [ok |-> TRUE, fs |-> fsx]
    ELSE [ok |-> TRUE, fs |-> ElevatePrivileges(fsx, p, ev).fs]

(* "if not has_access: if not self.elevate_privileges(path): ... return":  *)
(* the helper runs only after a denial, and its failure ends the call.    *)
Elevated(chk, fsx, p, ev) ==
    IF chk.ok THEN [ok |-> TRUE, fs |-> fsx] ELSE ElevatePrivileges(fsx, p, ev)

(* what the helper did in a call: "none" when it was not run *)
HelperRun(chk, fsx, p, ev) ==
    IF chk.ok THEN "none" ELSE IF fsx[p].exists THEN ev ELSE "fail"

----------------------------------------------------------------------------
(* BackupStore *)

(* A file of backup_dir named <stem>_<ts>.yaml. It is created by this     *)
(* process, so the current principal owns it; copy2 gives it the mode and *)
(* the modification time of its source.                                   *)
BackupKey(stem, ts) == [stem |-> stem, ts |-> ts]

KeyOf(b) == BackupKey(b.stem, b.ts)

Lookup(bks, key) == {b \in bks : KeyOf(b) = key}

(* create_backup, lines 265-284 *)
CreateBackup(fsx, dirsx, bks, p) ==
    LET f   == fsx[p]
        key == BackupKey(Stem(p), f.mtime)
        old == Lookup(bks, key)
        dstOk == IF old = {} THEN DirWritable(dirsx, BackupDir)
                 ELSE \A b \in old : Bit(b.mode, 128)
    IN  IF ~f.exists THEN [ok |-> FALSE, backups |-> bks]
        ELSE IF ~CanRead(f) \/ ~dstOk THEN [ok |-> FALSE, backups |-> bks]
        ELSE [ok |-> TRUE,
              backups |-> (bks \ old) \cup
                  {[stem |-> Stem(p), ts |-> f.mtime,
                    content |-> f.content, mode |-> f.mode]}]


(* The name of a backup file as the characters that decide its place in   *)
(* sorted(): after the common prefix "<name>_" come the remaining tokens  *)
(* of the stem, each followed by "_", then the decimal digits of the      *)
(* timestamp, then ".yaml". Ranks follow ASCII: "." < digits < "_" <      *)
(* letters; a token counts as one letter.                                 *)
RECURSIVE Digits(_)
Digits(k) == IF k < 10 THEN <<1 + k>> ELSE Digits(k \div 10) \o <<1 + (k % 10)>>

RECURSIVE TokenRanks(_)
TokenRanks(toks) ==
    IF toks = <<>> THEN <<>> ELSE <<12, 11>> \o TokenRanks(Tail(toks))

NameRanks(b) == TokenRanks(Tail(b.stem)) \o Digits(b.ts) \o <<0>>

RECURSIVE LexLess(_, _)
LexLess(s, t) ==
    IF t = <<>> THEN FALSE
    ELSE IF s = <<>> THEN TRUE
    ELSE IF Head(s) # Head(t) THEN Head(s) < Head(t)
    ELSE LexLess(Tail(s), Tail(t))

(* glob("<name>_*.yaml") on backup_dir *)
GlobMatches(n, b) == Len(b.stem) >= 1 /\ b.stem[1] = n

RECURSIVE SortedDesc(_)
SortedDesc(S) ==
    IF S = {} THEN <<>>
    ELSE LET top == CHOOSE b \in S :
                      \A c \in S \ {b} : LexLess(NameRanks(c), NameRanks(b))
         IN  <<top>> \o SortedDesc(S \ {top})

(* list_backups, lines 308-317: the names, newest first by file name *)
ListBackups(bks, n) ==
    LET S == {KeyOf(b) : b \in {x \in bks : GlobMatches(n, x)}}
    IN  SortedDesc(S)

----------------------------------------------------------------------------
(* ConfigManager: read_config and write_config as functions of the state  *)
(* they find and of what the environment does meanwhile (ev: the helper   *)
(* process, io: the write to the file).                                   *)

IoOutcomes == {"ok", "trunc", "partial"}

(* A read that creates the file it does not find. *)
ReadConfigStepCreating(pathsx, fsx, dirsx, n, ev) ==
    LET p == GetConfigPath(pathsx, n) IN
    [ret |-> EmptyMap, denied |-> FALSE, helper |-> "none",
     fs |-> IF fsx[p].exists THEN fsx
            ELSE [fsx EXCEPT ![p] = [NoFile EXCEPT !.exists = TRUE,
                                                  !.mode = Mode644]]]

(* read_config, lines 185-220 *)
ReadConfigStep(pathsx, fsx, dirsx, n, ev) ==
    LET p   == GetConfigPath(pathsx, n)
        chk == CheckPrivileges(fsx, dirsx, p)
        el  == Elevated(chk, fsx, p, ev)
        f   == el.fs[p]
        dec == Decode(p, f.content)
        helper == HelperRun(chk, fsx, p, ev)
    IN  IF n \notin Names
        THEN [ret |-> EmptyMap, fs |-> fsx, denied |-> FALSE, helper |-> "none"]
        ELSE IF ~el.ok
        THEN [ret |-> EmptyMap, fs |-> fsx, denied |-> TRUE, helper |-> helper]
        ELSE IF ~f.exists \/ ~CanRead(f) \/ ~dec.ok
        THEN [ret |-> EmptyMap, fs |-> el.fs, denied |-> ~chk.ok, helper |-> helper]
        ELSE [ret |-> OrEmpty(dec.doc), fs |-> el.fs, denied |-> ~chk.ok,
              helper |-> helper]

(* open(path, 'w') that leaves the bytes in place until the dump. *)
OpenedKeeping(f, p, t) ==
    IF f.exists THEN f
    ELSE [exists |-> TRUE, content |-> EmptyBytes, mtime |-> t, owner |-> "me",
          mode |-> Mode644]

(* The file after open(path, 'w'), line 245: created or truncated. *)
Opened(f, p, t) ==
    [exists |-> TRUE, content |-> EmptyBytes, mtime |-> t,
     owner |-> IF f.exists THEN f.owner ELSE "me",
     mode |-> IF f.exists THEN f.mode ELSE Mode644]

(* The file after open(path, 'w') and the dump, lines 245-252 *)
Written(f, p, d, io, t) ==
    [exists  |-> TRUE,
     content |-> CASE io = "ok"    -> Encode(p, d)
                   [] io = "trunc" -> EmptyBytes
                   [] OTHER        -> Partial(Encode(p, d)),
     mtime   |-> t,
     owner   |-> IF f.exists THEN f.owner ELSE "me",
     mode    |-> IF f.exists THEN f.mode ELSE Mode644]

(* A write that does not look the name up in the registry. *)
WriteConfigStepAnyName(pathsx, fsx, dirsx, bks, t, n, d, ev, io) ==
    [ok |-> TRUE, fs |-> fsx, backups |-> bks, denied |-> FALSE,
     helper |-> "none", io |-> io]

(* write_config, lines 222-263. Path(path).exists() on a path that is not *)
(* a string raises before anything is done.                               *)
WriteConfigStep(pathsx, fsx, dirsx, bks, t, n, d, ev, io) ==
    LET p   == GetConfigPath(pathsx, n)
        bk1 == IF fsx[p].exists /\ BackupEnabled(n)
               THEN CreateBackup(fsx, dirsx, bks, p).backups ELSE bks
        chk == CheckPrivileges(fsx, dirsx, p)
        el  == Elevated(chk, fsx, p, ev)
        helper == HelperRun(chk, fsx, p, ev)
        f2  == Written(el.fs[p], p, d, io, t)
    IN  IF n \notin Names \/ p = NotAString
        THEN [ok |-> FALSE, fs |-> fsx, backups |-> bks, denied |-> FALSE,
              helper |-> "none", io |-> "none"]
        ELSE IF ~el.ok
        THEN [ok |-> FALSE, fs |-> fsx, backups |-> bk1, denied |-> TRUE,
              helper |-> helper, io |-> "none"]
        ELSE IF ~CanOpenForWrite(el.fs, dirsx, p)
        THEN [ok |-> FALSE, fs |-> el.fs, backups |-> bk1, denied |-> ~chk.ok,
              helper |-> helper, io |-> "none"]
        ELSE IF io # "ok" \/ f2.owner # "me"
        THEN [ok |-> FALSE, fs |-> [el.fs EXCEPT ![p] = f2], backups |-> bk1,
              denied |-> ~chk.ok, helper |-> helper, io |-> io]
        ELSE [ok |-> TRUE, fs |-> [el.fs EXCEPT ![p] = [f2 EXCEPT !.mode = Mode644]],
              backups |-> bk1, denied |-> ~chk.ok, helper |-> helper, io |-> io]

(* restore_backup, lines 286-306. copy2 copies the bytes, then the times  *)
(* and the mode; setting the times of a file another principal owns is    *)
(* refused, and the exception leaves the bytes already copied.            *)
RestoreBackupStep(pathsx, fsx, dirsx, bks, t, n, key) ==
    LET p   == GetConfigPath(pathsx, n)
        bk1 == IF fsx[p].exists THEN CreateBackup(fsx, dirsx, bks, p).backups
               ELSE bks
        src == CHOOSE b \in Lookup(bk1, key) : TRUE
        f   == fsx[p]
    IN  IF Lookup(bks, key) = {}
        THEN [ok |-> FALSE, fs |-> fsx, backups |-> bks]
        ELSE IF ~Bit(src.mode, 256) \/ ~CanOpenForWrite(fsx, dirsx, p)
        THEN [ok |-> FALSE, fs |-> fsx, backups |-> bk1]
        ELSE IF f.exists /\ f.owner # "me"
        THEN [ok |-> FALSE, backups |-> bk1,
              fs |-> [fsx EXCEPT ![p].content = src.content, ![p].mtime = t]]
        ELSE [ok |-> TRUE, backups |-> bk1,
              fs |-> [fsx EXCEPT ![p] = [exists |-> TRUE, content |-> src.content,
                                        mtime |-> src.ts, owner |-> "me",
                                        mode |-> src.mode]]]

(* validate_all_configs, lines 339-358: the required names are visited in *)
(* the order of the registry.                                             *)
RegistryOrder == <<"bookmarks", "settings", "widgets">>

(* A loop that reports a required file that is both inaccessible and     *)
(* missing twice ("if" where the code has "elif").                        *)
ValidateOneTwice(pathsx, fsx, dirsx, n, acc) ==
    LET p   == GetConfigPath(pathsx, n)
        chk == CheckPrivileges(fsx, dirsx, p)
        a1  == IF Required(n) /\ ~chk.ok
               THEN [all_valid |-> FALSE,
                     errors |-> Append(acc.errors, [name |-> n, msg |-> chk.msg])]
               ELSE acc
    IN  IF Required(n) /\ ~fsx[p].exists
        THEN [all_valid |-> FALSE,
              errors |-> Append(a1.errors, [name |-> n, msg |-> "File not found"])]
        ELSE a1

(* one round of the loop, lines 344-356 *)
ValidateOne(pathsx, fsx, dirsx, n, acc) ==
    LET p   == GetConfigPath(pathsx, n)
        chk == CheckPrivileges(fsx, dirsx, p)
    IN  IF ~Required(n) THEN acc
        ELSE IF ~chk.ok
        THEN [all_valid |-> FALSE,
              errors |-> Append(acc.errors, [name |-> n, msg |-> chk.msg])]
        ELSE IF ~fsx[p].exists
        THEN [all_valid |-> FALSE,
              errors |-> Append(acc.errors, [name |-> n, msg |-> "File not found"])]
        ELSE acc

RECURSIVE ValidateLoop(_, _, _, _, _)
ValidateLoop(pathsx, fsx, dirsx, i, acc) ==
    IF i > Len(RegistryOrder) THEN acc
    ELSE ValidateLoop(pathsx, fsx, dirsx, i + 1,
                      ValidateOne(pathsx, fsx, dirsx, RegistryOrder[i], acc))

ValidateAllConfigs(pathsx, fsx, dirsx) ==
    ValidateLoop(pathsx, fsx, dirsx, 1, [all_valid |-> TRUE, errors |-> <<>>])

(* get_config_status, lines 319-337. Path(path).exists() on line 325 is  *)
(* outside any try: a path that is not a string makes the call raise.     *)
GetConfigStatus(pathsx, fsx, dirsx) ==
    IF \E n \in Names : GetConfigPath(pathsx, n) = NotAString
    THEN [raised |-> TRUE, status |-> <<>>]
    ELSE [raised |-> FALSE,
          status |-> [n \in Names |->
            LET p   == GetConfigPath(pathsx, n)
                chk == CheckPrivileges(fsx, dirsx, p)
            IN  [path |-> p, exists |-> fsx[p].exists, accessible |-> chk.ok,
                 error |-> IF chk.ok THEN "None" ELSE chk.msg,
                 required |-> Required(n), backup_enabled |-> BackupEnabled(n)]]]

----------------------------------------------------------------------------
(* The state after construction, on an installation with no manifest yet. *)
(* The configuration files belong to the program that is configured, so   *)
(* one of them may be there already, with any owner and mode.             *)

NormalDir == [exists |-> TRUE, writable |-> TRUE, probe |-> FALSE]

NormalDirs == [d \in Dirs |->
                 IF d \in {"gone", "none"} THEN [NormalDir EXCEPT !.exists = FALSE,
                                                      !.writable = FALSE]
                 ELSE NormalDir]

(* The directory states the manager is constructed in. *)
DirScenarios ==
    { NormalDirs,
      [NormalDirs EXCEPT ![BackupDir].writable = FALSE],
      [NormalDirs EXCEPT ![AppDir].writable = FALSE] }

NoManifest == [exists |-> FALSE, readable |-> FALSE, writable |-> FALSE,
               valid |-> FALSE, map |-> [n \in Names |-> EmptyPath]]

(* The manifest an earlier session saved with the paths mp. *)
Saved(mp) == [exists |-> TRUE, readable |-> TRUE, writable |-> TRUE,
              valid |-> TRUE, map |-> mp]

BlankPaths == [n \in Names |-> EmptyPath]

(* The manifest files construction can find: none; one saved earlier,    *)
(* with no path set or with bookmarks set; one edited by hand, with a     *)
(* number for bookmarks or with bytes that do not parse; and one whose    *)
(* permissions were changed since.                                        *)
ManifestFiles ==
    LET moved == [BlankPaths EXCEPT !["bookmarks"] =
                     [dir |-> "ext", stem |-> <<"bm">>, ext |-> "json"]]
        bad   == [Saved(moved) EXCEPT !.valid = FALSE]
    IN  { NoManifest,
          Saved(BlankPaths),
          Saved(moved),
          Saved([BlankPaths EXCEPT !["bookmarks"] = NotAString]),
          bad,
          [bad EXCEPT !.writable = FALSE],
          [Saved(moved) EXCEPT !.readable = FALSE],
          [Saved(moved) EXCEPT !.readable = FALSE, !.writable = FALSE] }

(* owner and mode of a file another program left *)
EnvPerms == { <<"me", 420>>, <<"me", 292>>, <<"me", 128>>,
              <<"other", 420>>, <<"other", 384>>, <<"other", 438>> }

EnvContents == { YamlDump([kind |-> "list", items |-> <<"a", "b">>]), Garbage }

PreExisting ==
    { [exists |-> TRUE, content |-> c, mtime |-> t, owner |-> pm[1], mode |-> pm[2]] :
        c \in EnvContents, pm \in EnvPerms, t \in {T0 - 1, T0} }

NoFiles == [p \in AllPaths |-> NoFile]

(* no file yet, or one file at one of the paths P *)
InitFs(P) == {NoFiles} \cup {[NoFiles EXCEPT ![q] = f] : q \in P, f \in PreExisting}

(* The backup directory outlives the manager: it is empty, or holds the   *)
(* copy an earlier session's create_backup made of bookmarks.yaml.        *)
EarlierBackup == [stem |-> <<"bookmarks">>, ts |-> T0 - 2,
                  content |-> YamlDump([kind |-> "map", items |-> <<"layout">>]),
                  mode |-> Mode644]

InitBackups == { {}, {EarlierBackup} }

NoKey == BackupKey(<<>>, 0)

(* The threads that call the manager (the GUI runs its checks and saves   *)
(* in threads); the manager has no lock.                                  *)
Callers == {"A", "B"}

Idle == [c \in Callers |-> [pc |-> "idle", calls |-> 0]]

NoCall == [op |-> "init", name |-> "", path |-> EmptyPath, doc |-> NullDoc,
           ok |-> TRUE, ret |-> NullDoc, denied |-> FALSE, helper |-> "none",
           io |-> "none", key |-> NoKey, errors |-> <<>>, listed |-> <<>>,
           found |-> NoManifest, raised |-> FALSE, status |-> <<>>]

(* __init__, lines 37-58: the registry with every path "", then            *)
(* load_config_paths on the manifest file found, then                     *)
(* backup_dir.mkdir(exist_ok=True), which is in no try block: it creates  *)
(* a missing backup directory, or raises when app_dir is not writable.    *)
Construct(man, dirsx) ==
    LET ld == LoadConfigPaths(man, dirsx) IN
    IF dirsx[BackupDir].exists
    THEN [raised |-> FALSE, paths |-> ld.paths, manifest |-> ld.manifest,
          dirs |-> dirsx]
    ELSE IF DirWritable(dirsx, AppDir)
    THEN [raised |-> FALSE, paths |-> ld.paths, manifest |-> ld.manifest,
          dirs |-> [dirsx EXCEPT ![BackupDir] = NormalDir]]
    ELSE [raised |-> TRUE, paths |-> ld.paths, manifest |-> ld.manifest,
          dirs |-> dirsx]

(* The state construction leaves on the directories DS, the files at P,   *)
(* the manifest files M and the backup directories B; last.found keeps    *)
(* the manifest file that was found.                                      *)
InitOn(DS, P, M, B) ==
    /\ \E ds \in DS, m \in M :
          LET c == Construct(m, ds) IN
          /\ paths = c.paths
          /\ manifest = c.manifest
          /\ dirs = c.dirs
          /\ last = [NoCall EXCEPT !.found = m, !.raised = c.raised,
                                   !.ok = ~c.raised]
    /\ fs \in InitFs(P)
    /\ backups \in B
    /\ now = T0
    /\ nops = 0
    /\ inflight = Idle

InitFrom(P, M, B) == InitOn(DirScenarios, P, M, B)

InitWith(P) == InitFrom(P, {NoManifest}, InitBackups)

----------------------------------------------------------------------------
(* The calls of the manager *)

Tick ==
    /\ now < MaxTime
    /\ now' = now + 1
    /\ last' = [NoCall EXCEPT !.op = "tick"]
    /\ UNCHANGED <<paths, manifest, fs, dirs, backups, nops, inflight>>

(* set_config_path, lines 85-96: an unregistered name is refused before   *)
(* the path is validated.                                                 *)
SetConfigPath(n, p) ==
    LET v == IF n \in Names THEN ValidateConfigPath(dirs, p)
             ELSE [ok |-> FALSE, dirs |-> dirs] IN
    /\ nops < MaxOps
    /\ nops' = nops + 1
    /\ dirs' = v.dirs
    /\ IF v.ok
       THEN /\ paths' = [paths EXCEPT ![n] = p]
            /\ manifest' = SaveConfigPaths(paths', manifest, dirs')
       ELSE UNCHANGED <<paths, manifest>>
    /\ last' = [NoCall EXCEPT !.op = "set_config_path", !.name = n, !.path = p,
                              !.ok = v.ok]
    /\ UNCHANGED <<fs, backups, now, inflight>>

ReadConfig(n, ev) ==
    LET r == ReadConfigStep(paths, fs, dirs, n, ev) IN
    /\ nops < MaxOps
    /\ nops' = nops + 1
    /\ fs' = r.fs
    /\ last' = [NoCall EXCEPT !.op = "read_config", !.name = n, !.ret = r.ret,
                              !.path = GetConfigPath(paths, n),
                              !.denied = r.denied, !.helper = r.helper]
    /\ UNCHANGED <<paths, manifest, dirs, backups, now, inflight>>

WriteConfig(n, d, ev, io) ==
    LET r == WriteConfigStep(paths, fs, dirs, backups, now, n, d, ev, io) IN
    /\ nops < MaxOps
    /\ nops' = nops + 1
    /\ fs' = r.fs
    /\ backups' = r.backups
    /\ last' = [NoCall EXCEPT !.op = "write_config", !.name = n, !.doc = d,
                              !.path = GetConfigPath(paths, n), !.ok = r.ok,
                              !.denied = r.denied, !.helper = r.helper,
                              !.io = r.io]
    /\ UNCHANGED <<paths, manifest, dirs, now, inflight>>

RestoreBackup(n, key) ==
    LET r == RestoreBackupStep(paths, fs, dirs, backups, now, n, key) IN
    /\ nops < MaxOps
    /\ nops' = nops + 1
    /\ fs' = r.fs
    /\ backups' = r.backups
    /\ last' = [NoCall EXCEPT !.op = "restore_backup", !.name = n, !.key = key,
                              !.path = GetConfigPath(paths, n), !.ok = r.ok]
    /\ UNCHANGED <<paths, manifest, dirs, now, inflight>>

ValidateAll ==
    LET r == ValidateAllConfigs(paths, fs, dirs) IN
    /\ last' = [NoCall EXCEPT !.op = "validate_all_configs", !.ok = r.all_valid,
                              !.errors = r.errors]
    /\ UNCHANGED <<paths, manifest, fs, dirs, backups, now, nops, inflight>>

ListBackupsCall(n) ==
    /\ last' = [NoCall EXCEPT !.op = "list_backups", !.name = n,
                              !.listed = ListBackups(backups, n)]
    /\ UNCHANGED <<paths, manifest, fs, dirs, backups, now, nops, inflight>>

(* validate_config_path called on its own (config_ui.py, line 535) *)
ValidatePathCall(p) ==
    LET v == ValidateConfigPath(dirs, p) IN
    /\ dirs' = v.dirs
    /\ last' = [NoCall EXCEPT !.op = "validate_config_path", !.path = p,
                              !.ok = v.ok]
    /\ UNCHANGED <<paths, manifest, fs, backups, now, nops, inflight>>

(* check_privileges called on its own (config_ui.py, line 540) *)
CheckPrivilegesCall(p) ==
    LET c == CheckPrivileges(fs, dirs, p) IN
    /\ last' = [NoCall EXCEPT !.op = "check_privileges", !.path = p,
                              !.ok = c.ok, !.errors = <<c.msg>>]
    /\ UNCHANGED <<paths, manifest, fs, dirs, backups, now, nops, inflight>>

GetStatus ==
    LET r == GetConfigStatus(paths, fs, dirs) IN
    /\ last' = [NoCall EXCEPT !.op = "get_config_status", !.ok = ~r.raised,
                              !.raised = r.raised, !.status = r.status]
    /\ UNCHANGED <<paths, manifest, fs, dirs, backups, now, nops, inflight>>

(* ConfigPathWindow.test_privilege_elevation, config_ui.py lines 628-659: *)
(* writes <app_dir>/test_privilege.tmp, calls elevate_privileges on it    *)
(* and unlinks it; a refused open is reported and nothing else is done.   *)
TestPrivilegeElevation(ev) ==
    LET made == [fs EXCEPT ![TestPath] = Written(fs[TestPath], TestPath, NullDoc, "ok", now)]
        el   == ElevatePrivileges(made, TestPath, ev)
    IN  /\ IF CanOpenForWrite(fs, dirs, TestPath)
           THEN /\ fs' = [el.fs EXCEPT ![TestPath] = NoFile]
                /\ last' = [NoCall EXCEPT !.op = "test_privilege_elevation",
                                          !.path = TestPath, !.ok = el.ok,
                                          !.helper = ev]
           ELSE /\ fs' = fs
                /\ last' = [NoCall EXCEPT !.op = "test_privilege_elevation",
                                          !.path = TestPath, !.ok = FALSE]
        /\ UNCHANGED <<paths, manifest, dirs, backups, now, nops, inflight>>

(* write_config("bookmarks", d) step by step, for a caller c that runs    *)
(* beside another one. The steps are the system calls of lines 229-256:   *)
(* the backup copy; the access check, the helper and open(path, 'w');     *)
(* the dump and close; chmod and return. Each caller writes its own       *)
(* document.                                                              *)
CallerDoc(c) ==
    IF c = "A" THEN [kind |-> "map", items |-> <<"layout">>]
    ELSE [kind |-> "list", items |-> <<"b">>]

WcReturn(c, ok) ==
    /\ inflight' = [inflight EXCEPT ![c].pc = "idle"]
    /\ last' = [NoCall EXCEPT !.op = "write_config", !.name = "bookmarks",
                              !.path = GetConfigPath(paths, "bookmarks"),
                              !.doc = CallerDoc(c), !.ok = ok]

WcStep(c, pc) ==
    /\ inflight' = [inflight EXCEPT ![c].pc = pc]
    /\ last' = [NoCall EXCEPT !.op = "write_config_step"]

WcBackup(c) ==
    LET p == GetConfigPath(paths, "bookmarks") IN
    /\ inflight[c].pc = "idle"
    /\ inflight[c].calls < MaxOps
    /\ backups' = IF fs[p].exists /\ BackupEnabled("bookmarks")
                  THEN CreateBackup(fs, dirs, backups, p).backups ELSE backups
    /\ inflight' = [inflight EXCEPT ![c] = [pc |-> "backed", calls |-> @.calls + 1]]
    /\ last' = [NoCall EXCEPT !.op = "write_config_step"]
    /\ UNCHANGED <<paths, manifest, fs, dirs, now, nops>>

WcOpen(c, ev) ==
    LET p   == GetConfigPath(paths, "bookmarks")
        chk == CheckPrivileges(fs, dirs, p)
        el  == Elevated(chk, fs, p, ev)
    IN  /\ inflight[c].pc = "backed"
        /\ IF ~el.ok
           THEN fs' = fs /\ WcReturn(c, FALSE)
           ELSE IF ~CanOpenForWrite(el.fs, dirs, p)
           THEN fs' = el.fs /\ WcReturn(c, FALSE)
           ELSE /\ fs' = [el.fs EXCEPT ![p] = Opened(el.fs[p], p, now)]
                /\ WcStep(c, "opened")
        /\ UNCHANGED <<paths, manifest, dirs, backups, now, nops>>

WcDump(c) ==
    LET p == GetConfigPath(paths, "bookmarks") IN
    /\ inflight[c].pc = "opened"
    /\ fs' = [fs EXCEPT ![p].content = Encode(p, CallerDoc(c)), ![p].mtime = now]
    /\ WcStep(c, "dumped")
    /\ UNCHANGED <<paths, manifest, dirs, backups, now, nops>>

WcChmod(c) ==
    LET p == GetConfigPath(paths, "bookmarks") IN
    /\ inflight[c].pc = "dumped"
    /\ IF fs[p].owner # "me"
       THEN fs' = fs /\ WcReturn(c, FALSE)
       ELSE fs' = [fs EXCEPT ![p].mode = Mode644] /\ WcReturn(c, TRUE)
    /\ UNCHANGED <<paths, manifest, dirs, backups, now, nops>>

(* homepage_gui.delete_category, lines 78-87. The bookmarks document is a *)
(* list of categories; the comprehension keeps the items that do not hold *)
(* the category, and over a mapping it runs over the keys, so the empty   *)
(* mapping gives the empty list. The result is saved whatever the read    *)
(* returned. Then settings is read, and saved again when it has a         *)
(* "layout" key; item assignment on a list raises.                        *)
DeleteFrom(doc, c) ==
    [kind |-> "list", items |-> SelectSeq(doc.items, LAMBDA x : x # c)]

Categories == {"a", "b"}

DeleteCategory(c, ev1, ev2, io) ==
    LET r1   == ReadConfigStep(paths, fs, dirs, "bookmarks", ev1)
        kept == DeleteFrom(r1.ret, c)
        w1   == WriteConfigStep(paths, r1.fs, dirs, backups, now, "bookmarks",
                                kept, ev2, io)
        r2   == ReadConfigStep(paths, w1.fs, dirs, "settings", ev2)
        hasLayout == \E i \in 1..Len(r2.ret.items) : r2.ret.items[i] = "layout"
        raised == hasLayout /\ r2.ret.kind = "list"
        w2   == WriteConfigStep(paths, r2.fs, dirs, w1.backups, now, "settings",
                                r2.ret, ev2, "ok")
    IN  /\ nops < MaxOps
        /\ nops' = nops + 1
        /\ IF hasLayout /\ ~raised
           THEN fs' = w2.fs /\ backups' = w2.backups
           ELSE fs' = r2.fs /\ backups' = w1.backups
        /\ last' = [NoCall EXCEPT !.op = "delete_category", !.name = "bookmarks",
                                  !.path = GetConfigPath(paths, "bookmarks"),
                                  !.key = BackupKey(<<c>>, 0),
                                  !.ret = r1.ret, !.doc = kept, !.ok = w1.ok,
                                  !.denied = r1.denied, !.helper = r1.helper,
                                  !.io = w1.io, !.raised = raised]
        /\ UNCHANGED <<paths, manifest, dirs, now, inflight>>

(* The backup files a caller can name: those of the directory. *)
BackupKeys == {KeyOf(b) : b \in backups}

(* The calls made on the configurations N, with the paths P, the          *)
(* documents D and the write outcomes IO.                                 *)
Calls(N, P, D, IO) ==
    \/ Tick
    \/ \E n \in N, p \in P : SetConfigPath(n, p)
    \/ \E n \in N, ev \in HelperOutcomes : ReadConfig(n, ev)
    \/ \E n \in N, d \in D, ev \in HelperOutcomes, io \in IO :
          WriteConfig(n, d, ev, io)
    \/ \E n \in N, key \in BackupKeys : RestoreBackup(n, key)
    \/ ValidateAll
    \/ \E n \in N : ListBackupsCall(n)

(* Spec: one configuration, bookmarks, with every path and document.      *)
Focus == {"bookmarks"}

FilePaths == {p \in AllPaths : p.dir \in {AppDir, "ext"}}

FocusPaths == {p \in FilePaths : p \in PathInputs \/ p \in {DefaultPath(n) : n \in Focus}}

Init == InitWith(FocusPaths)

Next == Calls(Focus, PathInputs, Docs, IoOutcomes)

Spec == Init /\ [][Next]_vars

(* SpecAll: every configuration of the registry, one document, writes     *)
(* that complete.                                                         *)
InitAll == InitWith(FilePaths)

NextAll == Calls(Names, {p \in PathInputs : p.ext = "json"},
                 {[kind |-> "list", items |-> <<"a", "b">>]}, {"ok"})

SpecAll == InitAll /\ [][NextAll]_vars

(* SpecLoad: construction over every manifest file, then the calls of the *)
(* configuration window (config_ui.py) and reads of bookmarks.            *)
LoadNames == {"bookmarks", "settings"}

InitLoad == InitFrom({DefaultPath("settings")}, ManifestFiles, {{}})

NextLoad ==
    \/ \E n \in LoadNames, p \in PathInputs : SetConfigPath(n, p)
    \/ \E ev \in HelperOutcomes : ReadConfig("bookmarks", ev)
    \/ GetStatus
    \/ \E ev \in HelperOutcomes : TestPrivilegeElevation(ev)
    \/ ValidateAll

SpecLoad == InitLoad /\ [][NextLoad]_vars

(* SpecConc: two callers run write_config("bookmarks", d) side by side.   *)
InitConc == InitWith({DefaultPath("bookmarks")})

NextConc ==
    \/ Tick
    \/ \E c \in Callers : WcBackup(c)
    \/ \E c \in Callers, ev \in HelperOutcomes : WcOpen(c, ev)
    \/ \E c \in Callers : WcDump(c)
    \/ \E c \in Callers : WcChmod(c)

SpecConc == InitConc /\ [][NextConc]_vars

(* SpecGui: the category editor of homepage_gui.py on the default        *)
(* bookmarks and settings files.                                          *)
(* settings.yaml is absent, or the mapping with a "layout" key that the   *)
(* editor saves.                                                          *)
SettingsFile == [exists |-> TRUE,
                 content |-> YamlDump([kind |-> "map", items |-> <<"layout">>]),
                 mtime |-> T0 - 1, owner |-> "me", mode |-> Mode644]

InitGui ==
    /\ \E ds \in DirScenarios :
          LET c == Construct(NoManifest, ds) IN
          /\ paths = c.paths
          /\ manifest = c.manifest
          /\ dirs = c.dirs
          /\ last = [NoCall EXCEPT !.raised = c.raised, !.ok = ~c.raised]
    /\ \E f \in InitFs({DefaultPath("bookmarks")}), st \in {NoFile, SettingsFile} :
          fs = [f EXCEPT ![DefaultPath("settings")] = st]
    /\ backups \in InitBackups
    /\ now = T0
    /\ nops = 0
    /\ inflight = Idle

NextGui ==
    \/ Tick
    \/ \E c \in Categories, ev1 \in HelperOutcomes, ev2 \in HelperOutcomes,
          io \in IoOutcomes : DeleteCategory(c, ev1, ev2, io)

SpecGui == InitGui /\ [][NextGui]_vars

(* SpecBoot: construction on a first run (no backup directory yet), with  *)
(* a probe file left in a directory, and calls that name a configuration  *)
(* the registry does not have. A construction that raised leaves no       *)
(* manager to call.                                                       *)
UnknownName == "nosuch"

BootNames == {"bookmarks", UnknownName}

NoDir == [exists |-> FALSE, writable |-> FALSE, probe |-> FALSE]

BootDirs ==
    DirScenarios \cup
    { [NormalDirs EXCEPT ![BackupDir] = NoDir],
      [NormalDirs EXCEPT ![BackupDir] = NoDir, ![AppDir].writable = FALSE],
      [NormalDirs EXCEPT !["ext"].probe = TRUE] }

CheckInputs ==
    { DefaultPath("bookmarks"),
      [dir |-> "ext",  stem |-> <<"bm">>, ext |-> "json"],
      [dir |-> "gone", stem |-> <<"bm">>, ext |-> "yaml"] }

InitBoot == InitOn(BootDirs, {DefaultPath("bookmarks")}, {NoManifest}, {{}})

Alive == ~(last.op = "init" /\ last.raised)

NextBoot ==
    \/ \E n \in BootNames, p \in PathInputs : Alive /\ SetConfigPath(n, p)
    \/ \E n \in BootNames, ev \in HelperOutcomes : Alive /\ ReadConfig(n, ev)
    \/ \E n \in BootNames, ev \in HelperOutcomes :
          Alive /\ WriteConfig(n, [kind |-> "list", items |-> <<"a", "b">>], ev, "ok")
    \/ \E p \in PathInputs : Alive /\ ValidatePathCall(p)
    \/ \E p \in CheckInputs : Alive /\ CheckPrivilegesCall(p)

SpecBoot == InitBoot /\ [][NextBoot]_vars

----------------------------------------------------------------------------
(* The claims. A claim about one call is stated of every call that can be *)
(* made in a reachable state (the result of the call's operator there),   *)
(* or of every step that makes the call (last' names it).                 *)

Range(seq) == {seq[i] : i \in 1..Len(seq)}

Target(n) == GetConfigPath(paths, n)

FileReadable(p) == fs[p].exists /\ CanRead(fs[p])

(* C1: write_config(name, d) on a file that exists, with backups enabled, *)
(* leaves exactly one new entry in list_backups(name), stamped with the   *)
(* modification time the file had; backing the unmodified file up again   *)
(* reuses that name. Stated of the calls that can do no better: the file  *)
(* is readable, the backup directory writable, no backup of that name is  *)
(* there yet, nothing fails and write_config returns True.                *)
C1_OneNewBackupListed ==
    \A n \in Names, d \in Docs :
        LET p      == Target(n)
            r      == WriteConfigStep(paths, fs, dirs, backups, now, n, d, "ok", "ok")
            before == Range(ListBackups(backups, n))
            after  == Range(ListBackups(r.backups, n))
            again  == CreateBackup(fs, dirs, r.backups, p).backups
        IN  ( /\ FileReadable(p) /\ BackupEnabled(n)
              /\ DirWritable(dirs, BackupDir)
              /\ Lookup(backups, BackupKey(Stem(p), fs[p].mtime)) = {}
              /\ r.ok )
            => /\ \E k \in after : after \ before = {k} /\ k.ts = fs[p].mtime
               /\ Range(ListBackups(again, n)) = after


(* C2: when check_privileges denies access and elevate_privileges then    *)
(* fails, write_config returns False and the target file is what it was:  *)
(* not written, not truncated, not created.                               *)
C2_DeniedWriteLeavesFile ==
    [][ ( /\ last'.op = "write_config"
          /\ ~CheckPrivileges(fs, dirs, last'.path).ok
          /\ last'.helper = "fail" )
        => ( ~last'.ok /\ fs'[last'.path] = fs[last'.path] ) ]_vars

(* a denied write whose helper failed, on a file that could be written *)
C2_Witness ==
    /\ last.op = "write_config" /\ last.denied /\ last.helper = "fail"
    /\ ~last.ok
    /\ fs[last.path].exists /\ CanWrite(fs[last.path])

(* C3: write_config("bookmarks", d) on an existing file another principal *)
(* owns and the caller cannot read or cannot write, with the elevation    *)
(* succeeding: afterwards a backup holds the prior content, the file      *)
(* holds the encoding of d and its mode is 0644. Stated of the calls in   *)
(* which both helper steps succeed, the write completes and the backup    *)
(* directory is writable.                                                 *)
C3_ElevatedWriteBacksUp ==
    [][ ( /\ last'.op = "write_config" /\ last'.name = "bookmarks"
          /\ fs[last'.path].exists /\ fs[last'.path].owner = "other"
          /\ ~CheckPrivileges(fs, dirs, last'.path).ok
          /\ last'.helper = "ok" /\ last'.io = "ok"
          /\ DirWritable(dirs, BackupDir) )
        => ( /\ \E b \in backups' : /\ b.stem = Stem(last'.path)
                                    /\ b.content = fs[last'.path].content
             /\ fs'[last'.path].content = Encode(last'.path, last'.doc)
             /\ fs'[last'.path].mode = Mode644 ) ]_vars

(* C4: when restore_backup(name, b) returns True, a read_config(name)     *)
(* right after it returns the content b held when restore_backup was      *)
(* called. Stated of the backups whose content decodes, with a read whose *)
(* helper (if it runs) succeeds.                                          *)
C4_RestoreThenRead ==
    \A n \in Names, key \in BackupKeys :
        LET p  == Target(n)
            b  == CHOOSE x \in Lookup(backups, key) : TRUE
            r  == RestoreBackupStep(paths, fs, dirs, backups, now, n, key)
            rd == ReadConfigStep(paths, r.fs, dirs, n, "ok")
        IN  (r.ok /\ Decode(p, b.content).ok)
            => /\ r.fs[p].content = b.content
               /\ rd.ret = OrEmpty(Decode(p, b.content).doc)

(* C5: after restore_backup(name, b) returns True on a target that        *)
(* existed, the content the target held just before is the content of a   *)
(* backup that list_backups(name) returns.                                *)
C5_RestoreReversible ==
    \A n \in Names, key \in BackupKeys :
        LET p == Target(n)
            r == RestoreBackupStep(paths, fs, dirs, backups, now, n, key)
        IN  (r.ok /\ fs[p].exists)
            => \E k \in Range(ListBackups(r.backups, n)) :
                  \E b \in Lookup(r.backups, k) : b.content = fs[p].content

(* C6: whenever write_config overwrites a file that exists and has        *)
(* backups enabled, a backup holding the content from just before is in   *)
(* the backup directory when the overwrite begins; when the backup cannot *)
(* be made the file is not overwritten. (io is "none" exactly when the    *)
(* call never opened the file for writing.)                               *)
C6_BackupBeforeOverwrite ==
    [][ ( /\ last'.op = "write_config"
          /\ fs[last'.path].exists /\ BackupEnabled(last'.name)
          /\ last'.io # "none" )
        => \E b \in backups' : /\ b.stem = Stem(last'.path)
                               /\ b.ts = fs[last'.path].mtime
                               /\ b.content = fs[last'.path].content ]_vars

(* C7: whenever write_config returns False the target holds no            *)
(* half-written file: its content is what it was, or it is still absent.  *)
C7_FailedWriteLeavesContent ==
    [][ (last'.op = "write_config" /\ ~last'.ok)
        => ( /\ fs'[last'.path].exists = fs[last'.path].exists
             /\ fs'[last'.path].content = fs[last'.path].content ) ]_vars

(* C8: round trip: after write_config(name, d) returned True, a           *)
(* read_config(name) right after it returns d, for every document d,      *)
(* empty and falsy ones included.                                         *)
C8_RoundTrip ==
    (last.op = "write_config" /\ last.ok)
    => \A ev \in HelperOutcomes :
          ReadConfigStep(paths, fs, dirs, last.name, ev).ret = last.doc

(* C9: read_config never returns the empty document for a file that       *)
(* exists, can be read, and parses in neither format.                     *)
C9_ParseFailureSurfaced ==
    ( /\ last.op = "read_config"
      /\ FileReadable(last.path)
      /\ ~Decode(last.path, fs[last.path].content).ok )
    => last.ret # EmptyMap

(* C10: validate_all_configs returns (False, errors) exactly when a       *)
(* required descriptor is inaccessible or its file is missing; errors has *)
(* one entry for each of those descriptors, naming it, and none for an    *)
(* optional descriptor.                                                   *)
FailingRequired ==
    {n \in Names : /\ Required(n)
                   /\ \/ ~CheckPrivileges(fs, dirs, Target(n)).ok
                      \/ ~fs[Target(n)].exists}

C10_ValidateAll ==
    last.op = "validate_all_configs"
    => /\ (last.ok = FALSE) <=> (FailingRequired # {})
       /\ Len(last.errors) = Cardinality(FailingRequired)
       /\ {e.name : e \in Range(last.errors)} = FailingRequired

(* one required descriptor fails, the other does not, and an optional     *)
(* configuration is inaccessible too                                      *)
C10_Witness ==
    /\ last.op = "validate_all_configs"
    /\ Len(last.errors) = 1
    /\ ~CheckPrivileges(fs, dirs, Target("widgets")).ok

(* C11: for every registered name, get_config_path returns a non-empty    *)
(* path (a string that names a file) in every reachable state, whatever   *)
(* manifest construction found and whatever set_config_path calls were    *)
(* made.                                                                  *)
C11_PathNeverEmpty ==
    \A n \in Names :
        LET p == GetConfigPath(paths, n) IN p # EmptyPath /\ p # NotAString

(* C12: set_config_path(name, p) with p whose parent directory is missing *)
(* returns False and leaves the path of every name and the manifest file  *)
(* as they were.                                                          *)
C12_MissingParentRejected ==
    [][ ( /\ last'.op = "set_config_path"
          /\ ~dirs[Parent(last'.path)].exists )
        => ( /\ ~last'.ok
             /\ paths' = paths
             /\ manifest' = manifest ) ]_vars

(* a path in a missing directory was refused while the manifest file      *)
(* could have been rewritten                                              *)
C12_Witness ==
    /\ last.op = "set_config_path"
    /\ ~dirs[Parent(last.path)].exists
    /\ ~last.ok
    /\ manifest.exists /\ manifest.writable

(* C13: set_config_path returns True only when the manifest file has been *)
(* rewritten with name mapped to the new path; when it fails, a failure   *)
(* to write the manifest file included, it returns False and the mapping  *)
(* in memory and on disk is what it was before the call.                  *)
C13_SetPersistsOrFails ==
    [][ last'.op = "set_config_path"
        => IF last'.ok
           THEN /\ manifest'.exists /\ manifest'.valid
                /\ manifest'.map = paths'
                /\ paths'[last'.name] = last'.path
           ELSE /\ paths' = paths
                /\ manifest' = manifest ]_vars

(* C14: on a fresh install (no manifest file), after construction          *)
(* get_config_path("settings") is <appDir>/settings.yaml and a manifest   *)
(* file exists whose entry for every registered name is the path          *)
(* get_config_path returns for it.                                        *)
C14_FreshInstallManifest ==
    ( last.op = "init" /\ ~last.found.exists )
    => /\ GetConfigPath(paths, "settings") = DefaultPath("settings")
       /\ manifest.exists
       /\ \A n \in Names : manifest.map[n] = GetConfigPath(paths, n)

(* C15: when the manifest file found at construction is corrupt or cannot *)
(* be read, construction completes with every registered name resolving   *)
(* to its default path, and the manifest file has been overwritten with   *)
(* the regenerated defaults ("" or the default path for every name).      *)
C15_BadManifestRegenerated ==
    ( /\ last.op = "init"
      /\ last.found.exists
      /\ (~last.found.valid \/ ~last.found.readable) )
    => /\ \A n \in Names : GetConfigPath(paths, n) = DefaultPath(n)
       /\ manifest.valid
       /\ \A n \in Names : manifest.map[n] \in {EmptyPath, DefaultPath(n)}

(* C16: elevation is never speculative: whenever a call has run            *)
(* elevate_privileges (last.helper is what the helper did), the same call *)
(* first made a check_privileges on that path that reported denial.       *)
(* read_config and write_config run it at most once: HelperRun gives one  *)
(* outcome for a call.                                                    *)
C16_ElevationOnlyAfterDenial ==
    last.helper # "none" => last.denied

(* C17: elevate_privileges(path) returns True only if the helper exited   *)
(* successfully for both steps (chown, then chmod): for every path and    *)
(* every outcome of the helper in a reachable state, True implies that    *)
(* both steps succeeded.                                                  *)
C17_ElevateTrueOnlyIfBothSteps ==
    \A p \in AllPaths, ev \in HelperOutcomes :
        ElevatePrivileges(fs, p, ev).ok => ev = "ok"

(* C18: list_backups(name) returns the backups strictly descending by the *)
(* integer timestamp in the file name (newest first), for every set of    *)
(* backup files write_config can leave, timestamps of different numbers   *)
(* of digits included.                                                    *)
C18_ListedNewestFirst ==
    \A n \in Names, d \in Docs :
        LET r == WriteConfigStep(paths, fs, dirs, backups, now, n, d, "ok", "ok")
            l == ListBackups(r.backups, n)
        IN  \A i \in 1..(Len(l) - 1) : l[i].ts > l[i + 1].ts

(* C19: read_config(name) for a registered name that is not required and  *)
(* whose file does not exist returns the empty document and changes       *)
(* nothing on the filesystem (no file, no directory, no backup), whether  *)
(* or not the parent directory is writable.                               *)
C19_MissingOptionalRead ==
    [][ ( /\ last'.op = "read_config"
          /\ last'.name \in Names /\ ~Required(last'.name)
          /\ ~fs[last'.path].exists )
        => ( /\ last'.ret = EmptyMap
             /\ fs' = fs /\ dirs' = dirs /\ backups' = backups
             /\ manifest' = manifest ) ]_vars

(* widgets.yaml was missing under a directory that is not writable: the   *)
(* access check denied, the helper was run and failed                     *)
C19_Witness ==
    /\ last.op = "read_config" /\ last.name = "widgets"
    /\ ~fs[last.path].exists
    /\ ~DirWritable(dirs, Parent(last.path))
    /\ last.denied /\ last.helper = "fail"

(* C20: get_config_status reports path, existence, accessibility and the  *)
(* denial reason for every registered descriptor, and changes nothing: no *)
(* file, directory, backup, manifest entry, owner or mode; it never runs  *)
(* the elevation helper.                                                  *)
C20_StatusPure ==
    [][ last'.op = "get_config_status"
        => ( /\ ~last'.raised
             /\ DOMAIN last'.status = Names
             /\ \A n \in Names :
                  LET s == last'.status[n]
                      p == GetConfigPath(paths, n)
                  IN  /\ s.path = p
                      /\ s.exists = fs[p].exists
                      /\ s.accessible = CheckPrivileges(fs, dirs, p).ok
                      /\ (~s.accessible => s.error = CheckPrivileges(fs, dirs, p).msg)
             /\ last'.helper = "none"
             /\ UNCHANGED <<paths, manifest, fs, dirs, backups>> ) ]_vars

(* C21: a call that names a configuration the registry does not have is   *)
(* rejected at once: write_config and set_config_path return False,       *)
(* read_config returns the empty document, and no file, backup,           *)
(* directory, path or manifest entry changes and no helper is run.        *)
C21_UnknownNameRejected ==
    [][ ( /\ last'.op \in {"write_config", "set_config_path", "read_config"}
          /\ last'.name \notin Names )
        => ( /\ last'.op \in {"write_config", "set_config_path"} => ~last'.ok
             /\ last'.op = "read_config" => last'.ret = EmptyMap
             /\ last'.helper = "none" /\ ~last'.denied
             /\ UNCHANGED <<fs, backups, dirs, paths, manifest>> ) ]_vars

(* write_config on an unknown name was refused *)
C21_Witness ==
    /\ last.op = "write_config"
    /\ last.name \notin Names
    /\ ~last.ok

(* C22: no core operation lets an exception escape: construction and      *)
(* every call return a result or a failure indicator in every filesystem  *)
(* state, an application directory that is not writable included          *)
(* (last.raised records an exception that reached the caller).            *)
C22_NoExceptionEscapes ==
    ~last.raised

(* C23: validate_config_path(path) mutates nothing: after it returns,     *)
(* True or False, the parent directory holds the files it held before,    *)
(* a file already named like the probe included.                          *)
C23_ValidateLeavesDirectory ==
    [][ last'.op = "validate_config_path"
        => /\ dirs' = dirs
           /\ UNCHANGED <<fs, backups, paths, manifest>> ]_vars

(* C24: check_privileges(path) reports OK exactly when the path exists    *)
(* and is readable and writable, or does not exist and its parent         *)
(* directory is writable; otherwise the reason names the first missing    *)
(* permission (read before write for an existing file, parent-directory   *)
(* write for a missing one); the call changes no state.                   *)
C24_CheckPrivilegesExact ==
    [][ last'.op = "check_privileges"
        => LET p == last'.path
               f == fs[p]
               reason == IF f.exists
                         THEN IF ~CanRead(f) THEN "No read permission"
                              ELSE "No write permission"
                         ELSE "No write permission to parent directory"
           IN  /\ last'.ok <=> \/ f.exists /\ CanRead(f) /\ CanWrite(f)
                               \/ ~f.exists /\ DirWritable(dirs, Parent(p))
               /\ ~last'.ok => last'.errors = <<reason>>
               /\ UNCHANGED <<fs, dirs, backups, paths, manifest>> ]_vars

(* a file that can be neither read nor written was reported for the       *)
(* missing read permission                                                *)
C24_Witness ==
    /\ last.op = "check_privileges"
    /\ fs[last.path].exists
    /\ ~CanRead(fs[last.path]) /\ ~CanWrite(fs[last.path])
    /\ last.errors = <<"No read permission">>

(* C25: write_config takes no lock. When a caller's backup step runs      *)
(* while the other caller is between open(path, 'w') and its dump (the    *)
(* first caller has not written yet), and a copy is made, the copy is of  *)
(* the truncated file: it holds neither the content before the calls nor  *)
(* the complete document of either caller.                                *)
C25_BackupOfTruncatedFile ==
    [][ \A c \in Callers :
          ( /\ inflight[c].pc = "idle" /\ inflight[c].calls = 0
            /\ inflight'[c].pc = "backed"
            /\ \E o \in Callers \ {c} : inflight[o].pc = "opened"
            /\ backups' # backups )
          => \E b \in backups' \ backups :
                /\ b.content = EmptyBytes
                /\ \A x \in Callers : b.content # Encode(Target("bookmarks"), CallerDoc(x)) ]_vars

(* both callers have returned, the last one with True, and the backup     *)
(* directory holds a copy of the truncated file                           *)
C25_Witness ==
    /\ \A c \in Callers : inflight[c].pc = "idle" /\ inflight[c].calls = 1
    /\ last.op = "write_config" /\ last.ok
    /\ \E b \in backups : b.stem = <<"bookmarks">> /\ b.content = EmptyBytes

(* C26: once a backup file exists, no later core operation removes it or  *)
(* changes its content: whatever write_config or restore_backup call is   *)
(* made next, on any name, every backup record is still there.            *)
C26_BackupsImmutable ==
    /\ \A n \in Names, d \in Docs, ev \in HelperOutcomes :
          backups \subseteq
              WriteConfigStep(paths, fs, dirs, backups, now, n, d, ev, "ok").backups
    /\ \A n \in Names, key \in BackupKeys :
          backups \subseteq
              RestoreBackupStep(paths, fs, dirs, backups, now, n, key).backups

(* C27: list_backups(name) returns exactly the backups taken of name's    *)
(* configured file: the backup a successful write_config(m, ...) makes is *)
(* listed under m and under no other name, for every configured path      *)
(* (names with the same configured file apart).                           *)
C27_ListedExactlyOwnBackups ==
    \A m \in Names, d \in Docs :
        LET r   == WriteConfigStep(paths, fs, dirs, backups, now, m, d, "ok", "ok")
            new == {KeyOf(b) : b \in r.backups} \ {KeyOf(b) : b \in backups}
        IN  \A n \in Names, k \in new :
                (Target(n) = Target(m) => n = m)
                => ( k \in Range(ListBackups(r.backups, n)) <=> n = m )

(* C28: after set_config_path(name, p) returns True, get_config_path(name) *)
(* returns exactly p, for every p that passes validate_config_path, an    *)
(* empty p included; no other call changes what it returns.               *)
C28_GetReturnsWhatWasSet ==
    [][ /\ ( last'.op = "set_config_path" /\ last'.ok )
            => GetConfigPath(paths', last'.name) = last'.path
        /\ ( last'.op # "set_config_path" \/ ~last'.ok )
            => \A n \in Names : GetConfigPath(paths', n) = GetConfigPath(paths, n) ]_vars

(* C29: in every reachable state two distinct registered names resolve to *)
(* two distinct paths: whatever set_config_path call is accepted next,    *)
(* no two names share a path afterwards.                                  *)
C29_DistinctNamesDistinctPaths ==
    /\ \A n, m \in Names : n # m => Target(n) # Target(m)
    /\ \A n \in Names, p \in PathInputs :
          ValidateConfigPath(dirs, p).ok
          => LET set == [paths EXCEPT ![n] = p]
             IN  \A a, b \in Names :
                    a # b => GetConfigPath(set, a) # GetConfigPath(set, b)

(* C30: delete_category(c) removes only category c: every other category  *)
(* the bookmarks file held before the call is in the file afterwards,     *)
(* whatever read_config returned during the call.                         *)
CategoriesIn(f) ==
    IF f.exists /\ f.content.fmt \in {"yaml", "json"} /\ f.content.doc.kind = "list"
    THEN Range(f.content.doc.items)
    ELSE {}

============================================================================
